---------------------------- MODULE Spec2Model ----------------------------
(***************************************************************************)
(* Model of the constraint-based minesweeper director                      *)
(* (minesweeper/director/attempt2.py), of the constraint index it uses     *)
(* (minesweeper/datastructures.py), of the board view the directors read   *)
(* (minesweeper/director/base.py, minesweeper/game.py) and of the endgame  *)
(* planner of the first director (minesweeper/director/attempt1.py).       *)
(*                                                                         *)
(* A decision cycle AttemptDosDirector.act() is modelled step by step:     *)
(* one action per loop iteration of act() and of System.simplify().        *)
(* Every place where the Python code iterates over a set (whose order is   *)
(* decided by object hashes) is a nondeterministic choice.                 *)
(***************************************************************************)
EXTENDS Integers, Sequences, FiniteSets, TLC

(***************************************************************************)
(* Bounds of the model.  The game plays a 30 x 16 board with 99 mines      *)
(* (game.py:39,43); the model plays every board of at most Width x Height  *)
(* cells with at most MaxMines mines.                                      *)
(***************************************************************************)
Width == 4
Height == 2
MaxMines == 2

(* The game itself (GameSpec) is played on a board of BoardWidth x *)
(* BoardHeight cells with MaxMines mines.                          *)
BoardWidth == 3
BoardHeight == 2

(* Cell types of the director's board view, base.py:92-102 *)
TYPE_NUMBER0 == 0
TYPE_NUMBER8 == 8
TYPE_UNREVEALED == 9
TYPE_FLAG == 10

VARIABLES
    board,              \* GameControl._cell_map: (x, y) -> Cell.type
    mines_left,         \* Game.mines_left, read through get_mines_left()
    pc,                 \* position inside act()
    total_mines_left,   \* act(): total_mines_left
    systems,            \* act(): systems, <<>> for None and <<S>> for a set S
    next_systems,       \* act(): next_systems
    upper_bound,        \* act(): upper_bound of the current pass
    todo,               \* act(): systems the for loop has still to visit
    system,             \* simplify(): system (the copy being simplified)
    graph,              \* simplify(): graph
    clean,              \* simplify(): clean
    groups,             \* simplify(): what is left of the sorted list groups
    made,               \* the Groups constructed by the last step
    moves,              \* act(): moves
    probabilities,      \* act(): probabilities
    history,            \* BaseControl._history, as a set of (method, cell)
    repeated,           \* act(): the while loop is past its first pass
    lhs,                \* Group algebra: the left operand (self)
    rhs,                \* Group algebra: the right operand (other)
    result,             \* Group algebra: the Groups an operation returned
    plan,               \* attempt1: the plans endgame_insight() yielded
    game,               \* game.py: the Game and its Cells, as a record
    answer              \* PropertyGraph: what the last query returned

(* What act() leaves alone: the operands of the Group algebra, the     *)
(* plans of the first director, the game behind the view and the       *)
(* answer of a query of the index                                      *)
idle == <<lhs, rhs, result, plan, game, answer>>

vars == <<board, mines_left, pc, total_mines_left, systems, next_systems,
          upper_bound, todo, system, graph, clean, groups, made, moves,
          probabilities, history, repeated, idle>>

-----------------------------------------------------------------------------
(* Small helpers *)

Min2(a, b) == IF a <= b THEN a ELSE b
Max2(a, b) == IF a >= b THEN a ELSE b

RECURSIVE SumOver(_, _)
(* sum(f[x] for x in S) *)
SumOver(S, f) ==
    IF S = {} THEN 0
    ELSE LET x == CHOOSE y \in S : TRUE
         IN  f[x] + SumOver(S \ {x}, f)

-----------------------------------------------------------------------------
(* The board view: base.py Cell *)

(* The cells of a board of w x h cells, GameControl.get_cells() *)
Grid(w, h) == (0 .. w - 1) \X (0 .. h - 1)

(* Cell.get_neighbor_deltas / Cell._get_neighbours without filters: the *)
(* cells of the set cs (a board) next to c                              *)
NeighborsIn(cs, c) ==
    {d \in cs : /\ d # c
                /\ d[1] - c[1] \in {-1, 0, 1}
                /\ d[2] - c[2] \in {-1, 0, 1}}

Neighbors(b, c) == NeighborsIn(DOMAIN b, c)

is_flagged(b, c) == b[c] = TYPE_FLAG
is_empty(b, c) == b[c] = TYPE_NUMBER0
is_number(b, c) == b[c] <= TYPE_NUMBER8 /\ ~is_empty(b, c)
is_unrevealed(b, c) == b[c] = TYPE_UNREVEALED

UnrevealedNeighbors(b, c) == {d \in Neighbors(b, c) : is_unrevealed(b, d)}
NumberNeighbors(b, c) == {d \in Neighbors(b, c) : is_number(b, d)}
FlaggedNeighbors(b, c) == {d \in Neighbors(b, c) : is_flagged(b, d)}

num_flags_left(b, c) == b[c] - Cardinality(FlaggedNeighbors(b, c))

AllUnrevealed(b) == {c \in DOMAIN b : is_unrevealed(b, c)}

(***************************************************************************)
(* The game behind the view (game.py).  A snapshot is what                 *)
(* GameControl._convert_cell shows of a game in play with the mines at     *)
(* mineSet, flags on flagSet and the cells of revealedSet revealed.        *)
(***************************************************************************)
determine_number(cs, mineSet, c) ==
    Cardinality(NeighborsIn(cs, c) \cap mineSet)

convert_cell(cs, mineSet, flagSet, revealedSet, c) ==
    IF c \in revealedSet THEN determine_number(cs, mineSet, c)
    ELSE IF c \in flagSet THEN TYPE_FLAG
    ELSE TYPE_UNREVEALED

(* Revealing an empty cell reveals its neighbours (Cell.cascade_empty), so *)
(* the revealed set of a game is closed under that cascade.                *)
CascadeClosed(cs, mineSet, revealedSet) ==
    \A c \in revealedSet :
        determine_number(cs, mineSet, c) = 0
            => NeighborsIn(cs, c) \subseteq revealedSet


-----------------------------------------------------------------------------
(* Group: attempt2.py:22-155.  A Group is a record of its four fields. *)

Group(cs, lb, ub, srcs) ==
    [cells |-> cs, lower_bound |-> lb, upper_bound |-> ub, sources |-> srcs]

(* Group.deconstruct: what __eq__ and __hash__ compare (sources are not) *)
deconstruct(g) == <<g.cells, g.lower_bound, g.upper_bound>>

(* Group.__eq__ *)
GroupEq(g, h) == deconstruct(g) = deconstruct(h)

(* len(group), Group.__len__ *)
GroupLen(g) == Cardinality(g.cells)

(* A Group.__sub__ that does not cap the upper bound at len(cells) *)
GroupSub_uncapped(self, other) ==
    LET cells == self.cells \ other.cells
        ub == self.upper_bound
                - (other.lower_bound - Cardinality(other.cells \ self.cells))
        lb == Max2(0, self.lower_bound
                        - Min2(self.upper_bound, other.upper_bound))
    IN  Group(cells, lb, ub, self.sources)

(* A Group.__sub__ that takes the cells of other out of nothing *)
GroupSub_all_cells(self, other) ==
    LET cells == self.cells
        ub == Min2(Cardinality(cells),
                   self.upper_bound
                     - (other.lower_bound
                          - Cardinality(other.cells \ self.cells)))
        lb == Max2(0, self.lower_bound
                        - Min2(self.upper_bound, other.upper_bound))
    IN  Group(cells, lb, ub, self.sources)

(* A Group.__sub__ whose lower bound takes off the lower bound of other *)
GroupSub_less_lower(self, other) ==
    LET cells == self.cells \ other.cells
        ub == Min2(Cardinality(cells),
                   self.upper_bound
                     - (other.lower_bound
                          - Cardinality(other.cells \ self.cells)))
        lb == Max2(0, self.lower_bound - other.lower_bound)
    IN  Group(cells, lb, ub, self.sources)

(* Group.__sub__ *)
GroupSub(self, other) ==
    LET cells == self.cells \ other.cells
        ub == Min2(Cardinality(cells),
                   self.upper_bound
                     - (other.lower_bound
                          - Cardinality(other.cells \ self.cells)))
        lb == Max2(0, self.lower_bound
                        - Min2(self.upper_bound, other.upper_bound))
    IN  Group(cells, lb, ub, self.sources)

(* Group.__and__ *)
GroupAnd(self, other) ==
    LET cells == self.cells \cap other.cells
        ub == Min2(Cardinality(cells),
                   Min2(self.upper_bound, other.upper_bound))
        lb == Max2(0,
                   Max2(self.lower_bound
                          - Cardinality(self.cells \ other.cells),
                        other.lower_bound
                          - Cardinality(other.cells \ self.cells)))
    IN  Group(cells, lb, ub, self.sources \cup other.sources)

(* The three pieces combine() constructs, before the empty ones are dropped *)
combinations(self, other) ==
    <<GroupSub(self, other), GroupAnd(self, other), GroupSub(other, self)>>

(* Group.combine: the pieces with at least one cell, in order *)
combine(self, other) ==
    SelectSeq(combinations(self, other), LAMBDA g : g.cells # {})

(* Group.is_solid *)
is_solid(g) == g.lower_bound = g.upper_bound

(* An is_confident that asks for no more than is_solid *)
is_confident_when_solid(g) == is_solid(g)

(* Group.is_confident *)
is_confident(g) ==
    is_solid(g) /\ (g.lower_bound = 0 \/ g.lower_bound = GroupLen(g))

(***************************************************************************)
(* Group.probability.  A probability is the fraction <<n, d>> = n / d; the *)
(* float NaN the code returns for a Group without cells is <<0, 0>>.  On   *)
(* boards of this size the float arithmetic of the code is exact where it  *)
(* is compared (== 0, == 1, <= 0.2).                                       *)
(***************************************************************************)
NaN == <<0, 0>>

(* A Group.probability that adds the two means and does not halve *)
probability_unhalved(g) ==
    IF g.lower_bound = 0 /\ g.upper_bound = 0 THEN <<0, 1>>
    ELSE IF g.lower_bound = GroupLen(g) /\ g.upper_bound = GroupLen(g)
         THEN <<1, 1>>
    ELSE IF GroupLen(g) = 0 THEN NaN
    ELSE <<g.lower_bound + g.upper_bound, GroupLen(g)>>

probability(g) ==
    IF g.lower_bound = 0 /\ g.upper_bound = 0 THEN <<0, 1>>
    ELSE IF g.lower_bound = GroupLen(g) /\ g.upper_bound = GroupLen(g)
         THEN <<1, 1>>
    ELSE IF GroupLen(g) = 0 THEN NaN
    ELSE <<g.lower_bound + g.upper_bound, 2 * GroupLen(g)>>

ProbLeq(p, q) == p # NaN /\ q # NaN /\ p[1] * q[2] <= q[1] * p[2]
ProbIsOne(p) == p # NaN /\ p[1] = p[2]
ProbIsZero(p) == p # NaN /\ p[1] = 0

-----------------------------------------------------------------------------
(***************************************************************************)
(* PropertyGraph / GroupGraph: datastructures.py:22-68, attempt2.py:158.   *)
(* The dict _props is the set props of its items [o, props], o the key;    *)
(* the dict _reverse is the function reverse, whose domain is the set of   *)
(* its keys.  Keys and set members are compared with Group.__eq__.  The    *)
(* iteration order of _props goes back to the iteration order of the       *)
(* frozenset the graph was built from, which is arbitrary: where the code  *)
(* reads that order (the stable sort of simplify()), the model chooses.    *)
(***************************************************************************)
EmptyGraph == [props |-> {}, reverse |-> <<>>]

(* PropertyGraph.__contains__ *)
GraphContains(G, o) == \E e \in G.props : GroupEq(e.o, o)

(* The item of _props whose key is o *)
Item(G, o) == CHOOSE e \in G.props : GroupEq(e.o, o)

(* PropertyGraph.__iter__ / set(graph) / frozenset(graph) *)
GraphObjects(G) == {e.o : e \in G.props}

(* set.add / set.discard on a set of Groups *)
SetAdd(S, o) == IF \E h \in S : GroupEq(h, o) THEN S ELSE S \cup {o}
SetDiscard(S, o) == {h \in S : ~GroupEq(h, o)}

(* self._props[o] of the defaultdict: a missing key is inserted, empty *)
Touch(G, o) ==
    IF GraphContains(G, o) THEN G
    ELSE [G EXCEPT !.props = @ \cup {[o |-> o, props |-> {}]}]

(* PropertyGraph.props_of: the value read (the graph becomes Touch(G, o)) *)
props_of(G, o) ==
    IF GraphContains(G, o) THEN Item(G, o).props ELSE {}

(* PropertyGraph.objects_containing, for a prop that is a key of _reverse *)
objects_containing(G, prop) ==
    IF prop \in DOMAIN G.reverse THEN G.reverse[prop] ELSE {}

(* PropertyGraph.all_props *)
all_props(G) == DOMAIN G.reverse

(* PropertyGraph.add with the get_props of GroupGraph (group.cells) *)
GraphAdd(G, o) ==
    LET T == Touch(G, o)
        e == Item(T, o)
    IN  [props |-> (T.props \ {e})
                     \cup {[e EXCEPT !.props = @ \cup o.cells]},
         reverse |-> [p \in DOMAIN T.reverse \cup o.cells |->
                        IF p \in o.cells
                        THEN SetAdd(objects_containing(T, p), o)
                        ELSE T.reverse[p]]]

(* PropertyGraph.update *)
RECURSIVE GraphUpdate(_, _)
GraphUpdate(G, objects) ==
    IF objects = <<>> THEN G
    ELSE GraphUpdate(GraphAdd(G, Head(objects)), Tail(objects))

(* PropertyGraph.remove *)
GraphRemove(G, o) ==
    LET T == Touch(G, o)
        e == Item(T, o)
        ps == e.props
    IN  [props |-> T.props \ {e},
         reverse |-> [p \in DOMAIN T.reverse |->
                        IF p \in ps THEN SetDiscard(T.reverse[p], o)
                        ELSE T.reverse[p]]]

(* PropertyGraph.relatives_of: the set returned (the graph becomes Touch) *)
relatives_of(G, o) ==
    SetDiscard(UNION {objects_containing(G, p) : p \in props_of(G, o)}, o)

(***************************************************************************)
(* PropertyGraph.get_independent_objects is called by System.simplify      *)
(* (attempt2.py:290) but datastructures.py does not define it.  It is      *)
(* modelled from the description of the constraint index: the constraints  *)
(* whose cell sets are disjoint from those of all others indexed.  The     *)
(* others indexed are the objects the graph iterates over, an object       *)
(* re-inserted by the defaultdict among them.                              *)
(***************************************************************************)
get_independent_objects(G) ==
    {o \in GraphObjects(G) :
        \A p \in GraphObjects(G) :
            ~GroupEq(p, o) => p.cells \cap o.cells = {}}

-----------------------------------------------------------------------------
(* System: attempt2.py:168-303.  A System is a record of its five slots. *)

(* The frozenset a System is: chain(unrevealed, edges) *)
SystemCells(s) == s.unrevealed \cup s.edges

(* What membership of a System in a set compares: __hash__ hashes the  *)
(* cells, both bounds and the groups (each Group by its deconstruct()) *)
SystemKey(s) ==
    <<SystemCells(s), s.lower_bound, s.upper_bound,
      {deconstruct(g) : g \in s.groups}>>

(* frozenset(...) == set(...) on sets of Systems *)
SystemsEq(S, T) == {SystemKey(s) : s \in S} = {SystemKey(t) : t \in T}

(* A find_visible_groups without the board-wide Group *)
find_numbered_groups(b, cs, total_cells_left) ==
    {Group(UnrevealedNeighbors(b, c),
           num_flags_left(b, c), num_flags_left(b, c), {"number"}) :
       c \in {n \in cs : is_number(b, n) /\ UnrevealedNeighbors(b, n) # {}}}

(* System.find_visible_groups, as the frozenset trace() makes of it: the *)
(* Groups of the numbers first, the board-wide Group last                *)
find_visible_groups(b, cs, total_cells_left) ==
    LET all_unrevealed == {c \in cs : is_unrevealed(b, c)}
        numbered == {c \in cs : is_number(b, c)}
        seeded == {Group(UnrevealedNeighbors(b, c),
                         num_flags_left(b, c), num_flags_left(b, c),
                         {"number"}) :
                     c \in {n \in numbered : UnrevealedNeighbors(b, n) # {}}}
    IN  SetAdd(seeded,
               Group(all_unrevealed, 0,
                     Min2(Cardinality(all_unrevealed), total_cells_left),
                     {"board"}))

(* A loop of trace that goes on from numbers to numbers *)
RECURSIVE TraceLoop_from_numbers(_, _, _, _, _, _)
TraceLoop_from_numbers(b, unrevealed, edges, walked, unrevealed_queue, number_queue) ==
    IF unrevealed_queue = {} /\ number_queue = {}
    THEN [unrevealed |-> unrevealed, edges |-> edges]
    ELSE LET all_queued == unrevealed_queue \cup number_queue
             walked2 == walked \cup all_queued
         IN  TraceLoop_from_numbers(b,
                 unrevealed \cup unrevealed_queue,
                 edges \cup number_queue,
                 walked2,
                 UNION {UnrevealedNeighbors(b, c) : c \in all_queued}
                     \ walked2,
                 UNION {NumberNeighbors(b, c) : c \in all_queued}
                     \ walked2)

(* The while loop of System.trace *)
RECURSIVE TraceLoop(_, _, _, _, _, _)
TraceLoop(b, unrevealed, edges, walked, unrevealed_queue, number_queue) ==
    IF unrevealed_queue = {} /\ number_queue = {}
    THEN [unrevealed |-> unrevealed, edges |-> edges]
    ELSE LET all_queued == unrevealed_queue \cup number_queue
             walked2 == walked \cup all_queued
         IN  TraceLoop(b,
                 unrevealed \cup unrevealed_queue,
                 edges \cup number_queue,
                 walked2,
                 UNION {UnrevealedNeighbors(b, c) : c \in all_queued}
                     \ walked2,
                 UNION {NumberNeighbors(b, c) : c \in unrevealed_queue}
                     \ walked2)

(* A trace that does not walk: start, its neighbours and no further *)
trace_one_step(b, start, ub) ==
    LET unrevealed == {start} \cup UnrevealedNeighbors(b, start)
        edges == NumberNeighbors(b, start)
    IN  [unrevealed |-> unrevealed,
         edges |-> edges,
         lower_bound |-> 0,
         upper_bound |-> ub,
         groups |-> find_visible_groups(b, unrevealed \cup edges, ub)]

(* A trace that looks for Groups on the whole board *)
trace_whole_board(b, start, ub) ==
    LET t == TraceLoop(b, {}, {}, {}, {start}, {})
    IN  [unrevealed |-> t.unrevealed,
         edges |-> t.edges,
         lower_bound |-> 0,
         upper_bound |-> ub,
         groups |-> find_visible_groups(b, DOMAIN b, ub)]

(* System.trace *)
trace(b, start, ub) ==
    LET t == TraceLoop(b, {}, {}, {}, {start}, {})
    IN  [unrevealed |-> t.unrevealed,
         edges |-> t.edges,
         lower_bound |-> 0,
         upper_bound |-> ub,
         groups |-> find_visible_groups(b, t.unrevealed \cup t.edges, ub)]

(* find_systems: trace from any cell left, until none is left *)
RECURSIVE FindSystemsLoop(_, _, _)
FindSystemsLoop(b, cs, ub) ==
    IF cs = {} THEN {}
    ELSE LET start == CHOOSE c \in cs : TRUE
             s == trace(b, start, ub)
         IN  {s} \cup FindSystemsLoop(b, (cs \ {start}) \ s.unrevealed, ub)

(* A find_systems that takes flagged cells for unrevealed ones *)
find_systems_with_flags(b, ub) ==
    FindSystemsLoop(b, {c \in DOMAIN b : b[c] >= TYPE_UNREVEALED}, ub)

find_systems(b, ub) == FindSystemsLoop(b, AllUnrevealed(b), ub)

(* GroupGraph(groups) of a set of Groups no two of which are equal *)
RECURSIVE GroupGraph(_)
GroupGraph(S) ==
    IF S = {} THEN EmptyGraph
    ELSE LET g == CHOOSE h \in S : TRUE
         IN  GraphAdd(GroupGraph(S \ {g}), g)

(***************************************************************************)
(* simplify(): lines 267-269.  The list groups is the Groups of the graph  *)
(* that do not come from the board alone, longest first; the sort is       *)
(* stable, so Groups of equal length come in the iteration order of the    *)
(* graph.  PassGroups is the set the list is made of and NextGroups the    *)
(* Groups that may come first in what is left of the list.                 *)
(***************************************************************************)
PassGroups(G) == {g \in GraphObjects(G) : g.sources # {"board"}}

NextGroups(left) ==
    {g \in left : \A h \in left : GroupLen(h) <= GroupLen(g)}

(* simplify(): the relatives that may come first in contained_groups, *)
(* sorted by overlap with group, largest overlap first                *)
MostOverlapping(group, contained_groups) ==
    {c \in contained_groups :
        \A d \in contained_groups :
            Cardinality(d.cells \cap group.cells)
                <= Cardinality(c.cells \cap group.cells)}

(* simplify() without lines 293-298: the graph is returned as the loop *)
(* left it                                                            *)
SimplifyResult_as_left(sys, G) ==
    LET independents == get_independent_objects(G)
        lb == IF independents # {}
              THEN SumOver(independents,
                           [g \in independents |-> g.lower_bound])
              ELSE sys.lower_bound
    IN  [sys EXCEPT !.lower_bound = lb, !.groups = GraphObjects(G)]

(* simplify(): lines 289-302, the result after the while loop *)
SimplifyResult(sys, G) ==
    LET independents == get_independent_objects(G)
        independent_mines ==
            SumOver(independents, [g \in independents |-> g.upper_bound])
        other_groups == {g \in GraphObjects(G) :
                            ~\E i \in independents : GroupEq(i, g)}
        other_cells == UNION {g.cells : g \in other_groups}
        final == IF independent_mines = sys.upper_bound /\ other_cells # {}
                 THEN SetAdd(independents, Group(other_cells, 0, 0, {}))
                 ELSE GraphObjects(G)
        lb == IF independents # {}
              THEN SumOver(independents,
                           [g \in independents |-> g.lower_bound])
              ELSE sys.lower_bound
    IN  [sys EXCEPT !.lower_bound = lb, !.groups = final]

(* The Group simplify() constructs after the loop, if it constructs one *)
SynthesizedGroups(sys, G) ==
    {g \in SimplifyResult(sys, G).groups : g.sources = {}}

-----------------------------------------------------------------------------
(* flatten_groups and split_moves: attempt2.py:306-367 *)

(* objects_containing(cell) of the fresh GroupGraph(groups) *)
Containers(gs, c) == {g \in gs : c \in g.cells}

(* max() of a non-empty set of probabilities *)
ProbMax(P) == CHOOSE p \in P : \A q \in P : ProbLeq(q, p)

(* A flatten_groups without the precedence of confident Groups: the *)
(* maximum for every cell                                           *)
CellProbabilities_max_only(gs, c) ==
    {ProbMax({probability(g) : g \in Containers(gs, c)})}

(* The probabilities flatten_groups may yield for a cell: that of the     *)
(* confident Group that happens to come first, else the maximum           *)
CellProbabilities(gs, c) ==
    LET confident_groups == {g \in Containers(gs, c) : is_confident(g)}
    IN  IF confident_groups # {}
        THEN {probability(g) : g \in confident_groups}
        ELSE {ProbMax({probability(g) : g \in Containers(gs, c)})}

(* A split_moves that reveals every cell it flags *)
SplitOne_reveal_flagged(r, p, c) ==
    IF ProbIsOne(p)
    THEN [r EXCEPT !.moves = @ \cup {<<"right_click", c>>, <<"click", c>>}]
    ELSE IF ProbIsZero(p)
    THEN [r EXCEPT !.moves = @ \cup {<<"click", c>>}]
    ELSE [r EXCEPT !.probabilities = @ \cup {<<p, c>>}]

(* split_moves: what one probability of one cell adds to the result *)
SplitOne(r, p, c) ==
    IF ProbIsOne(p)
    THEN [r EXCEPT !.moves = @ \cup {<<"right_click", c>>}]
    ELSE IF ProbIsZero(p)
    THEN [r EXCEPT !.moves = @ \cup {<<"click", c>>}]
    ELSE [r EXCEPT !.probabilities = @ \cup {<<p, c>>}]

(* split_moves: every (moves, probabilities) it may return for groups *)
RECURSIVE SplitLoop(_, _)
SplitLoop(gs, cs) ==
    IF cs = {} THEN {[moves |-> {}, probabilities |-> {}]}
    ELSE LET c == CHOOSE d \in cs : TRUE
         IN  {SplitOne(r, p, c) :
                 r \in SplitLoop(gs, cs \ {c}),
                 p \in CellProbabilities(gs, c)}

split_moves(gs) == SplitLoop(gs, UNION {g.cells : g \in gs})

-----------------------------------------------------------------------------
(***************************************************************************)
(* A decision cycle.  The director is handed the view of a game in play:   *)
(* some mines, flags on some of them, and a cascade-closed set of mine-    *)
(* free cells revealed.  mines_left is the number of mines less the number *)
(* of flags (Game.on_cell_flagged).                                        *)
(***************************************************************************)
(* The value None and a set of Systems, as values of one variable *)
None == <<>>
Some(S) == <<S>>

NoSystem ==
    [unrevealed |-> {}, edges |-> {}, lower_bound |-> 0, upper_bound |-> 0,
     groups |-> {}]

(* A Group without cells, the value of an operand not in use *)
NoGroup == Group({}, 0, 0, {})

(* The value of game where no Game is played: Game.__init__'s            *)
(* declarations, before init_game                                        *)
NoGame ==
    [is_mine |-> {}, is_revealed |-> {}, is_flagged |-> {}, number |-> <<>>,
     has_revealed |-> FALSE, lost |-> FALSE, won |-> FALSE,
     in_play |-> FALSE, mines_left |-> 0,
     clear_neighbors_of_first_click |-> TRUE]

(* The view of a game in play *)
Snapshot ==
    \E w \in 1 .. Width, h \in 1 .. Height :
    \E mineSet \in {m \in SUBSET Grid(w, h) : Cardinality(m) <= MaxMines} :
    \E flagSet \in SUBSET mineSet :
    \E revealedSet \in SUBSET (Grid(w, h) \ mineSet) :
       /\ CascadeClosed(Grid(w, h), mineSet, revealedSet)
       /\ board = [c \in Grid(w, h) |->
                     convert_cell(Grid(w, h), mineSet, flagSet,
                                  revealedSet, c)]
       /\ mines_left = Cardinality(mineSet) - Cardinality(flagSet)

(* The locals of act() and simplify() before act() is called *)
NotActing ==
    /\ total_mines_left = 0
    /\ systems = None
    /\ next_systems = {}
    /\ upper_bound = 0
    /\ todo = {}
    /\ system = NoSystem
    /\ graph = EmptyGraph
    /\ clean = TRUE
    /\ groups = {}
    /\ made = {}
    /\ moves = {}
    /\ probabilities = {}
    /\ history = {}
    /\ repeated = FALSE

Init ==
    /\ Snapshot
    /\ pc = "act"
    /\ NotActing
    /\ lhs = NoGroup
    /\ rhs = NoGroup
    /\ result = <<>>
    /\ plan = {}
    /\ game = NoGame
    /\ answer = {}

(* act(): lines 374-381 *)
ActBegin ==
    /\ pc = "act"
    /\ total_mines_left' = mines_left
    /\ systems' = None
    /\ next_systems' = find_systems(board, mines_left)
    /\ made' = UNION {s.groups : s \in next_systems'}
    /\ moves' = {}
    /\ probabilities' = {}
    /\ repeated' = FALSE
    /\ pc' = "while"
    /\ UNCHANGED <<idle, board, mines_left, upper_bound, todo, system, graph,
                   clean, groups, history>>

(* act(): the test of the while loop *)
SystemsDiffer ==
    IF systems = None THEN TRUE ELSE ~SystemsEq(systems[1], next_systems)

(* act(): lines 383-391, the start of a pass of the while loop *)
OuterPass ==
    /\ pc = "while"
    /\ SystemsDiffer
    /\ moves' = {}
    /\ probabilities' = {}
    /\ systems' = Some(next_systems)
    /\ next_systems' = {}
    /\ upper_bound' = total_mines_left
           - SumOver(next_systems, [s \in next_systems |-> s.lower_bound])
    /\ todo' = next_systems
    /\ made' = {}
    /\ repeated' = (systems # None)
    /\ pc' = "for"
    /\ UNCHANGED <<idle, board, mines_left, total_mines_left, system, graph,
                   clean, groups, history>>

(* act(): the while loop ends because no system changed *)
OuterExit ==
    /\ pc = "while"
    /\ ~SystemsDiffer
    /\ systems' = Some(next_systems)
    /\ made' = {}
    /\ pc' = "finish"
    /\ UNCHANGED <<idle, repeated, board, mines_left, total_mines_left, next_systems,
                   upper_bound, todo, system, graph, clean, groups, moves,
                   probabilities, history>>

(* act(): line 393-394 and simplify(): lines 257-262 *)
SimplifyBegin ==
    /\ pc = "for"
    /\ \E s \in todo :
          /\ todo' = todo \ {s}
          /\ system' = [s EXCEPT !.upper_bound = upper_bound]
          /\ graph' = GroupGraph(s.groups)
    /\ clean' = FALSE
    /\ groups' = {}
    /\ made' = {}
    /\ pc' = "simplify_while"
    /\ UNCHANGED <<idle, repeated, board, mines_left, total_mines_left, systems,
                   next_systems, upper_bound, moves, probabilities, history>>

(* simplify(): lines 264-268, the start of a pass of `while not clean` *)
SimplifyPass ==
    /\ pc = "simplify_while"
    /\ ~clean
    /\ clean' = TRUE
    /\ groups' = PassGroups(graph)
    /\ made' = {}
    /\ pc' = IF groups' = {} THEN "simplify_while" ELSE "simplify_for"
    /\ UNCHANGED <<idle, repeated, board, mines_left, total_mines_left, systems,
                   next_systems, upper_bound, todo, system, graph, moves,
                   probabilities, history>>

(* simplify(): lines 269-287, one iteration of `for group in groups` *)
SimplifyStep ==
    /\ pc = "simplify_for"
    /\ \E group \in NextGroups(groups) :
       LET touched == Touch(graph, group)
           contained_groups == relatives_of(touched, group)
       IN  /\ groups' = groups \ {group}
           /\ IF contained_groups = {}
              THEN /\ graph' = touched
                   /\ clean' = clean
                   /\ made' = {}
              ELSE \E contained \in MostOverlapping(group, contained_groups) :
                      LET combined == combine(group, contained)
                          kept == IF ~is_confident(group)
                                  THEN GraphRemove(
                                           GraphRemove(touched, group),
                                           contained)
                                  ELSE touched
                      IN  /\ clean' =
                               IF \E i \in 1 .. Len(combined) :
                                     /\ is_confident(combined[i])
                                     /\ ~GraphContains(touched, combined[i])
                               THEN FALSE ELSE clean
                          /\ graph' = GraphUpdate(kept, combined)
                          /\ made' = {combinations(group, contained)[i] :
                                         i \in 1 .. 3}
    /\ pc' = IF groups' = {} THEN "simplify_while" ELSE "simplify_for"
    /\ UNCHANGED <<idle, repeated, board, mines_left, total_mines_left, systems,
                   next_systems, upper_bound, todo, system, moves,
                   probabilities, history>>

(* simplify(): lines 289-303, and act(): lines 395-398 *)
SimplifyEnd ==
    /\ pc = "simplify_while"
    /\ clean
    /\ LET simplified == SimplifyResult(system, graph)
       IN  /\ system' = NoSystem
           /\ next_systems' = next_systems \cup {simplified}
           /\ made' = SynthesizedGroups(system, graph)
           /\ \E r \in split_moves(simplified.groups) :
                 /\ moves' = moves \cup r.moves
                 /\ probabilities' = probabilities \cup r.probabilities
    /\ graph' = EmptyGraph
    /\ pc' = "for"
    /\ UNCHANGED <<idle, repeated, board, mines_left, total_mines_left, systems,
                   upper_bound, todo, clean, groups, history>>

(* An act() without the break of line 402: the while loop goes on *)
ForEnd_no_break ==
    /\ pc = "for"
    /\ todo = {}
    /\ made' = {}
    /\ pc' = "while"
    /\ systems' = systems
    /\ UNCHANGED <<idle, repeated, board, mines_left, total_mines_left, next_systems,
                   upper_bound, todo, system, graph, clean, groups, moves,
                   probabilities, history>>

(* act(): lines 400-402, after the for loop *)
ForEnd ==
    /\ pc = "for"
    /\ todo = {}
    /\ made' = {}
    /\ IF moves # {}
       THEN /\ pc' = "finish"
            /\ systems' = Some(next_systems)
       ELSE /\ pc' = "while"
            /\ systems' = systems
    /\ UNCHANGED <<idle, repeated, board, mines_left, total_mines_left, next_systems,
                   upper_bound, todo, system, graph, clean, groups, moves,
                   probabilities, history>>

(* act(): lines 407-409, the confident moves are executed *)
ExecConfident ==
    /\ pc = "finish"
    /\ moves # {}
    /\ history' = history \cup moves
    /\ pc' = "done"
    /\ UNCHANGED <<idle, repeated, board, mines_left, total_mines_left, systems,
                   next_systems, upper_bound, todo, system, graph, clean,
                   groups, made, moves, probabilities>>

(* act(): lines 414-418, every system is marked *)
Marks ==
    UNION {{<<"mark1", c>> : c \in s.unrevealed}
             \cup {<<"mark2", c>> : c \in s.edges} : s \in systems[1]}

(* A choice without the cutoff of lines 427-432: any cell *)
TopTierCells_any == {t[2] : t \in probabilities}

(* act(): lines 427-432 *)
TopTierCells ==
    LET top_probability ==
            CHOOSE p \in {t[1] : t \in probabilities} :
                \A t \in probabilities : ProbLeq(p, t[1])
        probability_cutoff ==
            IF ProbLeq(top_probability, <<1, 5>>) THEN <<1, 5>>
            ELSE top_probability
    IN  {t[2] : t \in {u \in probabilities :
                          ProbLeq(u[1], probability_cutoff)}}

(* act(): lines 411-436 with probabilities, the random-ish move *)
ExecFallback ==
    /\ pc = "finish"
    /\ moves = {}
    /\ probabilities # {}
    /\ \E cell \in TopTierCells :
          history' = history \cup Marks \cup {<<"click", cell>>}
    /\ pc' = "done"
    /\ UNCHANGED <<idle, repeated, board, mines_left, total_mines_left, systems,
                   next_systems, upper_bound, todo, system, graph, clean,
                   groups, made, moves, probabilities>>

(* act(): lines 411-420 without probabilities: marks only *)
ExecNothing ==
    /\ pc = "finish"
    /\ moves = {}
    /\ probabilities = {}
    /\ history' = history \cup Marks
    /\ pc' = "done"
    /\ UNCHANGED <<idle, repeated, board, mines_left, total_mines_left, systems,
                   next_systems, upper_bound, todo, system, graph, clean,
                   groups, made, moves, probabilities>>

Next ==
    \/ ActBegin
    \/ OuterPass
    \/ OuterExit
    \/ SimplifyBegin
    \/ SimplifyPass
    \/ SimplifyStep
    \/ SimplifyEnd
    \/ ForEnd
    \/ ExecConfident
    \/ ExecFallback
    \/ ExecNothing

Spec == Init /\ [][Next]_vars

(***************************************************************************)
(* act() is a sequential method: from the call to the return, as long as   *)
(* a step of it is possible, a step is taken.  This is weak fairness of    *)
(* Next.  A step of Next is possible exactly where act() has not returned  *)
(* (pc # "done": every other position has a step, and every step changes   *)
(* pc, clean or groups), so Progress is WF_vars(Next) with that condition  *)
(* in place of ENABLED <<Next>>_vars.  The fairness of the last step of    *)
(* act(), the execution of the moves, is stated as it is.                  *)
(***************************************************************************)
Progress == []<>(pc = "done") \/ []<><<Next>>_vars

(***************************************************************************)
(* A board of 5 x 2 cells with six mines, three cells revealed:            *)
(*      # # 4 # 1                                                          *)
(*      # # # 2 #                                                          *)
(* the view a game hands to act() after three clicks.                      *)
(***************************************************************************)
CrowdedCells == Grid(5, 2)
CrowdedMines == {<<0, 0>>, <<0, 1>>, <<1, 0>>, <<1, 1>>, <<2, 1>>, <<3, 0>>}
CrowdedRevealed == {<<2, 0>>, <<3, 1>>, <<4, 0>>}

CrowdedSnapshot ==
    /\ board = [c \in CrowdedCells |->
                  convert_cell(CrowdedCells, CrowdedMines, {},
                               CrowdedRevealed, c)]
    /\ mines_left = Cardinality(CrowdedMines)

(* act() is called on the boards of Init and on the crowded board *)
FairInit ==
    /\ Snapshot \/ CrowdedSnapshot
    /\ pc = "act"
    /\ NotActing
    /\ lhs = NoGroup
    /\ rhs = NoGroup
    /\ result = <<>>
    /\ plan = {}
    /\ game = NoGame
    /\ answer = {}

FairSpec ==
    /\ FairInit
    /\ [][Next]_vars
    /\ Progress
    /\ WF_vars(ExecConfident \/ ExecFallback \/ ExecNothing)

-----------------------------------------------------------------------------
(***************************************************************************)
(* The Group algebra on its own: the operators of Group applied to any two *)
(* Groups with cells, over the cells of one row of the board.              *)
(***************************************************************************)
actVars == <<board, mines_left, total_mines_left, systems, next_systems,
             upper_bound, todo, system, graph, clean, groups, made, moves,
             probabilities, history, repeated>>

(* Every Group on cells of cs that Group.__init__ may be handed with *)
(* bounds in order                                                   *)
GroupsOn(cs) ==
    UNION {{Group(c, lb, ub, {"number"}) :
               lb \in 0 .. Cardinality(c), ub \in 0 .. Cardinality(c)} :
           c \in SUBSET cs \ {{}}}

AlgebraInit ==
    /\ lhs \in {g \in GroupsOn(Grid(Width, 1)) :
                   g.lower_bound <= g.upper_bound}
    /\ rhs \in {g \in GroupsOn(Grid(Width, 1)) :
                   g.lower_bound <= g.upper_bound}
    /\ result = <<>>
    /\ plan = {}
    /\ game = NoGame
    /\ answer = {}
    /\ pc = "algebra"
    /\ board = <<>>
    /\ mines_left = 0
    /\ NotActing

(* self - other *)
Sub ==
    /\ pc = "algebra"
    /\ result' = <<GroupSub(lhs, rhs)>>
    /\ pc' = "sub"
    /\ UNCHANGED <<lhs, rhs, plan, game, answer, actVars>>

(* self & other *)
And ==
    /\ pc = "algebra"
    /\ result' = <<GroupAnd(lhs, rhs)>>
    /\ pc' = "and"
    /\ UNCHANGED <<lhs, rhs, plan, game, answer, actVars>>

(* self.combine(other) *)
Combine ==
    /\ pc = "algebra"
    /\ result' = combine(lhs, rhs)
    /\ pc' = "combine"
    /\ UNCHANGED <<lhs, rhs, plan, game, answer, actVars>>

AlgebraNext ==
    \/ Sub
    \/ And
    \/ Combine

AlgebraSpec == AlgebraInit /\ [][AlgebraNext]_vars

-----------------------------------------------------------------------------
(***************************************************************************)
(* The endgame planner of the first director, attempt1.py:409-421, handed  *)
(* the view of a game in play.                                             *)
(***************************************************************************)
(* reduce(operator.and_, sets, initial) *)
RECURSIVE Reduce_and(_, _)
Reduce_and(sets, initial) ==
    IF sets = {} THEN initial
    ELSE LET s == CHOOSE t \in sets : TRUE
         IN  Reduce_and(sets \ {s}, initial \cap s)

(* endgame_insight(): the numbered cells with flags left *)
in_play_numbered(b) ==
    {c \in DOMAIN b : is_number(b, c) /\ num_flags_left(b, c) # 0}

(* endgame_insight(): the sets of unrevealed neighbours of those cells *)
in_play_unrevealed(b) ==
    {UnrevealedNeighbors(b, c) : c \in in_play_numbered(b)}

(* endgame_insight(): the set of the plans it yields *)
endgame_insight(b, left) ==
    LET shared == Reduce_and(in_play_unrevealed(b), {})
        total_unrevealed == Cardinality(AllUnrevealed(b))
    IN  IF left = Cardinality(shared)
        THEN {{<<"right_click", c>> : c \in shared}}
        ELSE IF total_unrevealed - Cardinality(shared) = left
        THEN {{<<"click", c>> : c \in shared}}
        ELSE {}

EndgameInsight ==
    /\ pc = "act"
    /\ plan' = endgame_insight(board, mines_left)
    /\ pc' = "planned"
    /\ UNCHANGED <<lhs, rhs, result, game, answer, actVars>>

UnoNext == EndgameInsight

UnoSpec == Init /\ [][UnoNext]_vars

-----------------------------------------------------------------------------
(***************************************************************************)
(* The game, game.py.  The variable game is a record of the fields of the  *)
(* Game that the handlers of a click read and write, with the fields of    *)
(* its Cells as sets of cells: is_mine, is_revealed and is_flagged are the *)
(* sets of the cells whose field of that name is True, and number maps a   *)
(* cell to its cached number.  The board has BoardWidth x BoardHeight      *)
(* cells and MaxMines mines in place of BOARD_SIZE and MINES.              *)
(***************************************************************************)
BOARD_CELLS == Grid(BoardWidth, BoardHeight)
MINES == MaxMines

(* Cell.number before determine_number has set it: None *)
NoNumber == -1

(* Game.determine_numbers: every cell that is no mine counts the mines *)
(* next to it, a mine keeps the number it had                          *)
determine_numbers(g) ==
    [g EXCEPT !.number =
        [c \in BOARD_CELLS |->
            IF c \in g.is_mine THEN g.number[c]
            ELSE determine_number(BOARD_CELLS, g.is_mine, c)]]

(* Game.init_game: the games a fresh game may be, with the mines            *)
(* choose_mines may pick                                                    *)
init_game(first_click) ==
    {determine_numbers(
        [is_mine |-> m, is_revealed |-> {}, is_flagged |-> {},
         number |-> [c \in BOARD_CELLS |-> NoNumber],
         has_revealed |-> FALSE, lost |-> FALSE, won |-> FALSE,
         in_play |-> TRUE, mines_left |-> MINES,
         clear_neighbors_of_first_click |-> first_click]) :
     m \in {x \in SUBSET BOARD_CELLS : Cardinality(x) = MINES}}

(* Game._clear_cells: the sets of mines it may leave.  Each mine among    *)
(* cells moves to a cell outside cells that holds no mine, as long as     *)
(* the shuffled list has such a cell left.                                *)
clear_cells(g, cells) ==
    LET inside == cells \cap g.is_mine
        free == (BOARD_CELLS \ cells) \ g.is_mine
        n == Min2(Cardinality(inside), Cardinality(free))
    IN  {(g.is_mine \ from) \cup to :
            from \in {x \in SUBSET inside : Cardinality(x) = n},
            to \in {y \in SUBSET free : Cardinality(y) = n}}

(* Game.reconfigure_board: the games it may leave *)
reconfigure_board(g, c) ==
    LET cells == IF g.clear_neighbors_of_first_click
                 THEN NeighborsIn(BOARD_CELLS, c) \cup {c}
                 ELSE {c}
    IN  {determine_numbers([g EXCEPT !.is_mine = m]) :
            m \in clear_cells(g, cells)}

(* Cell.cascade_empty: the while loop *)
RECURSIVE CascadeEmptyLoop(_, _)
CascadeEmptyLoop(g, queue) ==
    IF queue = {} THEN g
    ELSE LET cell == CHOOSE c \in queue : TRUE
             friendlies == NeighborsIn(BOARD_CELLS, cell) \ g.is_mine
             unrevealed == friendlies \ (g.is_revealed \cup g.is_flagged)
         IN  CascadeEmptyLoop(
                 [g EXCEPT !.is_revealed = @ \cup unrevealed],
                 (queue \ {cell})
                     \cup {c \in unrevealed : g.number[c] = 0})

cascade_empty(g, c) == CascadeEmptyLoop(g, {c})

(* Game.lose and Game.win (Cell.is_game_over is lost or won) *)
lose(g) == [g EXCEPT !.lost = TRUE, !.in_play = FALSE]
win(g) == [g EXCEPT !.won = TRUE, !.in_play = FALSE]

(* Cell.handle_click, with Game.on_cell_revealed *)
Cell_handle_click(g, c) ==
    IF c \notin g.is_revealed /\ c \notin g.is_flagged
    THEN LET revealed == [g EXCEPT !.is_revealed = @ \cup {c},
                                   !.has_revealed = TRUE]
         IN  IF c \in g.is_mine THEN lose(revealed)
             ELSE IF g.number[c] = 0 THEN cascade_empty(revealed, c)
             ELSE revealed
    ELSE g

(* A Cell.handle_right_click that counts a flag put and forgets a flag *)
(* taken off                                                           *)
handle_right_click_put_only(g, c) ==
    IF c \notin g.is_revealed
    THEN IF c \notin g.is_flagged
         THEN [g EXCEPT !.is_flagged = @ \cup {c}, !.mines_left = @ - 1]
         ELSE [g EXCEPT !.is_flagged = @ \ {c}]
    ELSE g

(* Cell.handle_right_click, with Game.on_cell_flagged and on_cell_unflagged *)
handle_right_click(g, c) ==
    IF c \notin g.is_revealed
    THEN IF c \notin g.is_flagged
         THEN [g EXCEPT !.is_flagged = @ \cup {c}, !.mines_left = @ - 1]
         ELSE [g EXCEPT !.is_flagged = @ \ {c}, !.mines_left = @ + 1]
    ELSE g

(* Cell._cascade: handle_click on each cell of to_reveal *)
RECURSIVE ClickEach(_, _)
ClickEach(g, to_reveal) ==
    IF to_reveal = {} THEN g
    ELSE LET c == CHOOSE d \in to_reveal : TRUE
         IN  ClickEach(Cell_handle_click(g, c), to_reveal \ {c})

(* Cell.cascade and Cell._cascade *)
cascade(g, c) ==
    LET neighbor_flags == NeighborsIn(BOARD_CELLS, c) \cap g.is_flagged
        to_reveal == NeighborsIn(BOARD_CELLS, c)
                         \ (g.is_flagged \cup g.is_revealed)
    IN  IF Cardinality(neighbor_flags) = g.number[c]
        THEN ClickEach(g, to_reveal)
        ELSE g

(* Cell.handle_middle_click *)
handle_middle_click(g, c) ==
    IF g.number[c] # NoNumber THEN cascade(g, c) ELSE g

(* Game.handle_click(button, cell): the games it may leave *)
Game_handle_click(g, button, c) ==
    IF button = 1
    THEN {Cell_handle_click(h, c) :
             h \in IF ~g.has_revealed THEN reconfigure_board(g, c) ELSE {g}}
    ELSE IF button = 2 THEN {handle_middle_click(g, c)}
    ELSE {handle_right_click(g, c)}

(* Game.did_win *)
did_win(g) == BOARD_CELLS \subseteq g.is_mine \cup g.is_revealed

GameInit ==
    /\ game \in init_game(TRUE) \cup init_game(FALSE)
    /\ pc = "game"
    /\ board = <<>>
    /\ mines_left = 0
    /\ NotActing
    /\ lhs = NoGroup
    /\ rhs = NoGroup
    /\ result = <<>>
    /\ plan = {}
    /\ answer = {}

(* What a step of the game leaves alone *)
notGame == <<lhs, rhs, result, plan, answer, pc, actVars>>

(* GameControl.click(x, y) on the cell c *)
ClickCell(c) ==
    /\ pc = "game"
    /\ game' \in Game_handle_click(game, 1, c)
    /\ UNCHANGED notGame

(* GameControl.click, from the mouse or from the queue of the director *)
Click == \E c \in BOARD_CELLS : ClickCell(c)

(* GameControl.middle_click *)
MiddleClick ==
    /\ pc = "game"
    /\ \E c \in BOARD_CELLS : game' \in Game_handle_click(game, 2, c)
    /\ UNCHANGED notGame

(* GameControl.right_click *)
RightClick ==
    /\ pc = "game"
    /\ \E c \in BOARD_CELLS : game' \in Game_handle_click(game, 3, c)
    /\ UNCHANGED notGame

(* Game.check_winning_state, when it finds the game won *)
CheckWinningState ==
    /\ pc = "game"
    /\ game.in_play
    /\ did_win(game)
    /\ game' = win(game)
    /\ UNCHANGED notGame

(* Game.on_margin_clicked: a fresh game *)
OnMarginClicked ==
    /\ pc = "game"
    /\ game' \in init_game(game.clear_neighbors_of_first_click)
    /\ UNCHANGED notGame

GameNext ==
    \/ Click
    \/ MiddleClick
    \/ RightClick
    \/ CheckWinningState
    \/ OnMarginClicked

GameSpec == GameInit /\ [][GameNext]_vars

-----------------------------------------------------------------------------
(***************************************************************************)
(* The constraint index on its own: datastructures.py:22-63.  Groups are   *)
(* added to and removed from an empty GroupGraph, and the graph is asked   *)
(* for the props and the relatives of a Group, in any order.  The Groups   *)
(* are those of all bounds [0, len] on the cells of one row, one cell      *)
(* short of the board's width.                                             *)
(***************************************************************************)
IndexGroups ==
    {Group(c, 0, Cardinality(c), {"number"}) :
        c \in SUBSET Grid(Width - 1, 1) \ {{}}}

IndexInit ==
    /\ pc = "index"
    /\ board = <<>>
    /\ mines_left = 0
    /\ NotActing
    /\ lhs = NoGroup
    /\ rhs = NoGroup
    /\ result = <<>>
    /\ plan = {}
    /\ game = NoGame
    /\ answer = {}

(* What an operation of the index leaves alone *)
notIndex == <<board, mines_left, pc, total_mines_left, systems, next_systems,
              upper_bound, todo, system, clean, groups, made, moves,
              probabilities, history, repeated, lhs, rhs, result, plan, game>>

(* graph.add(o) *)
IndexAdd(o) ==
    /\ pc = "index"
    /\ graph' = GraphAdd(graph, o)
    /\ answer' = {}
    /\ UNCHANGED notIndex

(* graph.remove(o) *)
IndexRemove(o) ==
    /\ pc = "index"
    /\ graph' = GraphRemove(graph, o)
    /\ answer' = {}
    /\ UNCHANGED notIndex

(* graph.props_of(o): self._props[o] of the defaultdict *)
IndexPropsOf(o) ==
    /\ pc = "index"
    /\ answer' = props_of(graph, o)
    /\ graph' = Touch(graph, o)
    /\ UNCHANGED notIndex

(* graph.relatives_of(o) *)
IndexRelativesOf(o) ==
    /\ pc = "index"
    /\ answer' = relatives_of(Touch(graph, o), o)
    /\ graph' = Touch(graph, o)
    /\ UNCHANGED notIndex

Add == \E o \in IndexGroups : IndexAdd(o)
Remove == \E o \in IndexGroups : IndexRemove(o)
PropsOf == \E o \in IndexGroups : IndexPropsOf(o)
RelativesOf == \E o \in IndexGroups : IndexRelativesOf(o)

IndexNext ==
    \/ Add
    \/ Remove
    \/ PropsOf
    \/ RelativesOf

IndexSpec == IndexInit /\ [][IndexNext]_vars

(* The index under add and remove alone, without queries *)
UpdateNext ==
    \/ Add
    \/ Remove

UpdateSpec == IndexInit /\ [][UpdateNext]_vars

-----------------------------------------------------------------------------
(* What the claims speak of *)

(* The mine placements consistent with a view: sets of unrevealed cells  *)
(* that give every revealed cell its number (flags counted as mines) and *)
(* that have as many cells as there are mines left                       *)
ConsistentPlacements(b, left) ==
    {P \in SUBSET AllUnrevealed(b) :
        /\ Cardinality(P) = left
        /\ \A c \in DOMAIN b :
              b[c] <= TYPE_NUMBER8 =>
                  Cardinality(P \cap Neighbors(b, c)) = num_flags_left(b, c)}

(* The game moves of a history *)
Reveals(h) == {m[2] : m \in {n \in h : n[1] = "click"}}
Flags(h) == {m[2] : m \in {n \in h : n[1] = "right_click"}}

(* act() has returned after executing confident moves *)
ConfidentDone == pc = "done" /\ moves # {}

(* C1: every cell act() reveals as a confident move is free of mines in  *)
(* every placement consistent with the view, and every cell it flags as  *)
(* a confident move is a mine in every such placement.                   *)
C1_ConfidentMovesSound ==
    ConfidentDone =>
        \A P \in ConsistentPlacements(board, mines_left) :
            /\ Reveals(history) \cap P = {}
            /\ Flags(history) \subseteq P

(* find_systems has just returned *)
SystemsFound == pc = "while" /\ systems = None

(* C2: the unrevealed sets of the systems find_systems returns are       *)
(* pairwise disjoint and their union is the set of all unrevealed cells  *)
(* of the board: every unrevealed cell is in exactly one system.         *)
C2_SystemsPartition ==
    SystemsFound =>
        /\ UNION {s.unrevealed : s \in next_systems} = AllUnrevealed(board)
        /\ \A s, t \in next_systems :
              s # t => s.unrevealed \cap t.unrevealed = {}

(* C2 happens: find_systems returned at least two systems *)
C2_Witness == SystemsFound /\ Cardinality(next_systems) >= 2

(* C3: every Group constructed (the one of a number, the one of the      *)
(* board, every piece of a difference or intersection, the all-safe one  *)
(* simplify() makes) has 0 <= lower_bound <= upper_bound <= len(cells).  *)
C3_BoundsInOrder ==
    \A g \in made :
        /\ 0 <= g.lower_bound
        /\ g.lower_bound <= g.upper_bound
        /\ g.upper_bound <= GroupLen(g)

(* C3 happens: a step of simplify() combined two Groups into three       *)
(* pieces with cells                                                     *)
C3_Witness ==
    /\ pc \in {"simplify_for", "simplify_while"}
    /\ Cardinality({g \in made : g.cells # {}}) = 3

(* The system of the last pass that the system being simplified was *)
InputSystem == CHOOSE s \in systems[1] : s.unrevealed = system.unrevealed

(* simplify() is about to return the system it was handed by an earlier *)
(* simplify(), with the upper bound that one was handed                 *)
Resimplified ==
    /\ pc = "simplify_while"
    /\ clean
    /\ repeated
    /\ InputSystem.upper_bound = upper_bound

(* C4: simplifying a simplified system again with the same upper bound  *)
(* returns a system with the same constraints and the same bounds.      *)
C4_SimplifyIdempotent ==
    Resimplified =>
        SystemKey(SimplifyResult(system, graph)) = SystemKey(InputSystem)

(* C5: when the board has an unrevealed cell, act() issues at least one *)
(* game move; without confident moves, the list of probabilities the    *)
(* fallback reads is not empty.                                         *)
C5_FallbackGuarantee ==
    AllUnrevealed(board) # {} =>
        /\ pc = "done" => Reveals(history) \cup Flags(history) # {}
        /\ (pc = "finish" /\ moves = {}) => probabilities # {}

(* C5 happens: act() found no confident move and revealed a cell *)
C5_Witness == pc = "done" /\ moves = {} /\ Reveals(history) # {}

(* The 1-2-1 pattern: a board of 3 x 2 cells, the numbers 1, 2, 1 in one *)
(* row, the three cells of the other row unrevealed, two mines left      *)
OneTwoOne ==
    /\ DOMAIN board = Grid(3, 2)
    /\ mines_left = 2
    /\ \E y \in {0, 1} :
          /\ board[<<0, y>>] = 1 /\ board[<<1, y>>] = 2 /\ board[<<2, y>>] = 1
          /\ \A x \in 0 .. 2 : is_unrevealed(board, <<x, 1 - y>>)

(* The cells facing the two 1s *)
Flanks == {c \in AllUnrevealed(board) : c[1] \in {0, 2}}

(* C6: on the 1-2-1 pattern one act() issues a confident move for each *)
(* of the two flanking cells, whatever order the simplifier works in.  *)
C6_OneTwoOneFlanks ==
    (OneTwoOne /\ pc = "done") => Flanks \subseteq {m[2] : m \in moves}

(* The intersection of the sets of unrevealed neighbours of the in-play *)
(* numbered cells                                                       *)
SharedUnrevealed(b) ==
    {c \in AllUnrevealed(b) : \A U \in in_play_unrevealed(b) : c \in U}

(* C7: when the mines left are as many as the cells in the intersection *)
(* of the unrevealed neighbours of all in-play numbered cells, and      *)
(* there is such a cell, the endgame planner flags every one of them.   *)
C7_EndgameFlagsShared ==
    (/\ pc = "planned"
     /\ in_play_unrevealed(board) # {}
     /\ SharedUnrevealed(board) # {}
     /\ mines_left = Cardinality(SharedUnrevealed(board)))
        => {<<"right_click", c>> : c \in SharedUnrevealed(board)} \in plan

(* C8: when the cells of B are cells of A, the cells of A - B united   *)
(* with the cells of B are the cells of A, and A - B shares no cell    *)
(* with B.                                                             *)
C8_SubRoundTrip ==
    (pc = "sub" /\ rhs.cells \subseteq lhs.cells) =>
        /\ result[1].cells \cup rhs.cells = lhs.cells
        /\ result[1].cells \cap rhs.cells = {}

(* C8 happens: B was subtracted from an A that has its cells and more *)
C8_Witness ==
    /\ pc = "sub"
    /\ rhs.cells \subseteq lhs.cells
    /\ rhs.cells # lhs.cells
    /\ result[1].cells # {}

(* The systems act() holds *)
KnownSystems ==
    next_systems \cup (IF systems = None THEN {} ELSE systems[1])

(* C9: every constraint of a system, as seeded and after every          *)
(* simplification and during it, is on unrevealed cells of that system. *)
C9_NoCrossContamination ==
    /\ \A s \in KnownSystems :
          \A g \in s.groups : g.cells \subseteq s.unrevealed
    /\ \A g \in GraphObjects(graph) : g.cells \subseteq system.unrevealed

(* C9 happens: two systems were simplified, one with a numbered Group *)
C9_Witness ==
    /\ pc = "for"
    /\ todo = {}
    /\ Cardinality(next_systems) >= 2
    /\ \E s \in next_systems : \E g \in s.groups : "number" \in g.sources

(* The numbered cells with an unrevealed neighbour *)
SeedCells == {n \in DOMAIN board :
                 is_number(board, n) /\ UnrevealedNeighbors(board, n) # {}}

(* C10: act() flags every unrevealed neighbour of a numbered cell that  *)
(* has as many flags left as unrevealed neighbours, and reveals every   *)
(* unrevealed neighbour of a numbered cell that has no flag left.       *)
C10_ConfidentSeedsActedOn ==
    pc = "done" =>
        \A n \in SeedCells :
            LET U == UnrevealedNeighbors(board, n)
            IN  /\ num_flags_left(board, n) = Cardinality(U)
                      => U \subseteq Flags(history)
                /\ num_flags_left(board, n) = 0
                      => U \subseteq Reveals(history)

(* C10 happens: act() flagged the neighbours of such a numbered cell *)
C10_Witness ==
    /\ pc = "done"
    /\ \E n \in SeedCells :
          /\ num_flags_left(board, n)
                = Cardinality(UnrevealedNeighbors(board, n))
          /\ UnrevealedNeighbors(board, n) \subseteq Flags(history)

(* C11: on a view without unrevealed cells act() simplifies no system,  *)
(* issues no move and no mark, and returns.                             *)
C11_FinishedBoardNoOp ==
    AllUnrevealed(board) = {} =>
        /\ history = {}
        /\ moves = {}
        /\ pc \in {"act", "while", "for", "finish", "done"}

(* C11 happens: act() returned on a board whose mines are all flagged *)
C11_Witness ==
    /\ pc = "done"
    /\ AllUnrevealed(board) = {}
    /\ \E c \in DOMAIN board : is_flagged(board, c)

(* C12: a difference of two Groups never returns a Group with a lower  *)
(* or an upper bound below 0 (on a pair whose difference would have    *)
(* one, it raises instead of returning).                               *)
C12_SubNeverNegative ==
    pc = "sub" =>
        /\ result[1].lower_bound >= 0
        /\ result[1].upper_bound >= 0

(* A probability that is a number from 0 to 1 *)
InUnit(p) == p # NaN /\ p[2] > 0 /\ 0 <= p[1] /\ p[1] <= p[2]

(* The Groups with cells on one row of the board whose bounds are in *)
(* order: 0 <= lower_bound <= upper_bound <= len(cells)              *)
BoundedGroups ==
    {g \in GroupsOn(Grid(Width, 1)) : g.lower_bound <= g.upper_bound}

(* C13: the probability of every Group with cells and bounds in order  *)
(* is in [0, 1], and so is every probability act() gets from           *)
(* flatten_groups for a cell: the 1 of a flag, the 0 of a reveal and   *)
(* those of the list of probabilities.                                 *)
C13_ProbabilityRange ==
    /\ \A g \in BoundedGroups : InUnit(probability(g))
    /\ \A t \in probabilities : InUnit(t[1])
    /\ \A s \in KnownSystems : \A g \in s.groups :
           g.cells # {} => InUnit(probability(g))

(* C13 happens: flatten_groups yielded a probability other than 0, 1 *)
(* and 1/2                                                           *)
C13_Witness ==
    /\ pc = "finish"
    /\ \E t \in probabilities : t[1][1] > 0 /\ 2 * t[1][1] # t[1][2]

(* C14: every cell of the edges of a system trace() built is a revealed *)
(* cell with a number from 1 to 8 and has a neighbour among the         *)
(* unrevealed cells of that system.                                     *)
C14_SystemEdges ==
    \A s \in KnownSystems :
        \A e \in s.edges :
            /\ board[e] >= 1
            /\ board[e] <= TYPE_NUMBER8
            /\ Neighbors(board, e) \cap s.unrevealed # {}

(* C14 happens: trace() built a system with three numbered cells at its *)
(* edge                                                                 *)
C14_Witness ==
    SystemsFound /\ \E s \in next_systems : Cardinality(s.edges) >= 3

C16_ClickFrame ==
    [][\A c \in BOARD_CELLS :
          (ClickCell(c) /\ c \in game.is_revealed \cup game.is_flagged)
              => game' = game]_vars

(* C17: act() terminates on every view: every simplify() that is begun *)
(* returns (the loop `while not clean` ends), and the loop `while      *)
(* systems != next_systems` ends, with no cap on the iterations.       *)
C17_ActTerminates ==
    /\ <>(pc = "done")
    /\ (pc = "simplify_while") ~> (pc = "for")

(* C18: the upper bound a system is simplified with is the count of mines *)
(* left less the lower bounds of the other systems of the pass; its own   *)
(* lower bound is not subtracted.                                         *)
OtherSystems == systems[1] \ {InputSystem}

C18_UpperBoundOfOthers ==
    pc \in {"simplify_while", "simplify_for"} =>
        system.upper_bound =
            total_mines_left
              - SumOver(OtherSystems, [s \in OtherSystems |-> s.lower_bound])

(* The constraints of the index G that share no cell with any other *)
(* constraint of G                                                  *)
CellIndependents(G) ==
    {o \in GraphObjects(G) :
        \A p \in GraphObjects(G) :
            ~GroupEq(p, o) => p.cells \cap o.cells = {}}

(* The cells of the index G outside the constraints of I *)
RemainingCells(G, I) ==
    UNION {g.cells : g \in GraphObjects(G)} \ UNION {g.cells : g \in I}

(* C19: where simplify() leaves its loop, if the upper bounds of the      *)
(* constraints that share no cell with another sum to the upper bound of  *)
(* the system and cells remain outside them, simplify() returns exactly   *)
(* those constraints and one constraint [0,0] over the remaining cells;   *)
(* otherwise it constructs no constraint.                                 *)
C19_IndependentShortcut ==
    (pc = "simplify_while" /\ clean) =>
        LET I == CellIndependents(graph)
            rest == RemainingCells(graph, I)
        IN  IF /\ SumOver(I, [g \in I |-> g.upper_bound]) = system.upper_bound
               /\ rest # {}
            THEN {deconstruct(g) : g \in SimplifyResult(system, graph).groups}
                   = {deconstruct(g) : g \in I} \cup {<<rest, 0, 0>>}
            ELSE SynthesizedGroups(system, graph) = {}

(* C19 happens: simplify() leaves its loop with a constraint that shares *)
(* no cell with another, and constructs the constraint [0,0] over the    *)
(* cells of two or more others                                           *)
C19_Witness ==
    /\ pc = "simplify_while"
    /\ clean
    /\ CellIndependents(graph) # {}
    /\ Cardinality(GraphObjects(graph) \ CellIndependents(graph)) >= 2
    /\ SynthesizedGroups(system, graph) # {}

(* A step of simplify() that combines the Group group with a relative *)
CombinedWith(group) ==
    {contained \in MostOverlapping(group,
                                   relatives_of(Touch(graph, group), group)) :
        made' = {combinations(group, contained)[i] : i \in 1 .. 3}}

(* The Group x is no longer indexed, or is one of the pieces of *)
(* combine(group, contained)                                    *)
Replaced(x, group, contained) ==
    GraphContains(graph', x) =>
        \E i \in 1 .. Len(combine(group, contained)) :
            GroupEq(combine(group, contained)[i], x)

(* C20: a step of simplify() that combines a constraint G with its most-  *)
(* overlapping relative R leaves neither G nor R in the index, unless it  *)
(* equals one of the pieces of combine(G, R), which are inserted.         *)
C20_CombinationReplaces ==
    [][(pc = "simplify_for" /\ made' # {}) =>
          \A group \in groups \ groups' :
              \E contained \in CombinedWith(group) :
                  /\ Replaced(group, group, contained)
                  /\ Replaced(contained, group, contained)
                  /\ \A i \in 1 .. Len(combine(group, contained)) :
                        GraphContains(graph', combine(group, contained)[i])]_vars

(* The unrevealed cells that share a numbered neighbour with a cell of cs *)
NumberLinked(b, cs) ==
    {v \in DOMAIN b :
        /\ is_unrevealed(b, v)
        /\ \E u \in cs : NumberNeighbors(b, u) \cap NumberNeighbors(b, v) # {}}

(* The unrevealed cells joined to a cell of cs by a chain of unrevealed *)
(* cells, each next pair of which shares a numbered neighbour           *)
RECURSIVE NumberChained(_, _)
NumberChained(b, cs) ==
    IF NumberLinked(b, cs) \subseteq cs THEN cs
    ELSE NumberChained(b, cs \cup NumberLinked(b, cs))

(* C21: two unrevealed cells are in the same System of find_systems if   *)
(* and only if a chain of unrevealed cells joins them in which each next *)
(* pair shares a numbered neighbour; adjacent unrevealed cells without   *)
(* such a chain are in different Systems.                                *)
C21_SystemsAreNumberChains ==
    SystemsFound =>
        \A u \in AllUnrevealed(board), v \in AllUnrevealed(board) :
            (\E s \in next_systems : u \in s.unrevealed /\ v \in s.unrevealed)
                <=> v \in NumberChained(board, {u})

(* The unrevealed cells of the System s next to no numbered cell *)
Untouched(b, s) == {c \in s.unrevealed : NumberNeighbors(b, c) = {}}

(* C22: the board-wide Group a System is seeded with covers exactly the  *)
(* unrevealed cells of the System next to no numbered cell, with bounds  *)
(* 0 and the lesser of their count and the count of mines left.          *)
C22_CatchAllCoversUntouched ==
    SystemsFound =>
        \A s \in next_systems : \A g \in s.groups :
            g.sources = {"board"} =>
                /\ g.cells = Untouched(board, s)
                /\ g.lower_bound = 0
                /\ g.upper_bound =
                       Min2(Cardinality(Untouched(board, s)), mines_left)

(* The confident moves split_moves may return for the systems of S *)
ConfidentMovesOf(S) ==
    UNION {UNION {r.moves : r \in split_moves(s.groups)} : s \in S}

(* C23: the while loop of act() ends with the first pass in which a      *)
(* system yields a confident move; act() then executes the confident     *)
(* moves of that pass, each once, and nothing else: no mark and no guess *)
C23_ShortCircuit ==
    [][/\ (pc = "for" /\ todo = {} /\ moves # {}) =>
              /\ pc' = "finish"
              /\ moves' = moves
              /\ moves \subseteq ConfidentMovesOf(next_systems)
       /\ (pc = "finish" /\ moves # {}) =>
              /\ pc' = "done"
              /\ history' = moves]_vars

(* C23 happens: act() returned after executing two or more confident *)
(* moves found in a pass after the first                              *)
C23_Witness ==
    /\ pc = "done"
    /\ repeated
    /\ Cardinality(moves) >= 2
    /\ history = moves

(* The moves of the history that change the game *)
Clicks(h) == {mv \in h : mv[1] = "click"}
RightClicks(h) == {mv \in h : mv[1] = "right_click"}

(* The least probability computed for a cell, and the cutoff of the claim *)
MinProbability ==
    CHOOSE p \in {t[1] : t \in probabilities} :
        \A t \in probabilities : ProbLeq(p, t[1])

Cutoff == IF ProbLeq(MinProbability, <<1, 5>>) THEN <<1, 5>> ELSE MinProbability

(* C24: when act() returns with no confident move and some cell         *)
(* probability, it has issued exactly one reveal and no flag, and the   *)
(* probability computed for the revealed cell is at most the greater of *)
(* 0.2 and the least probability computed.                              *)
C24_FallbackChoice ==
    (pc = "done" /\ moves = {} /\ probabilities # {}) =>
        /\ Cardinality(Clicks(history)) = 1
        /\ RightClicks(history) = {}
        /\ \A mv \in Clicks(history) :
              /\ \E t \in probabilities : t[2] = mv[2]
              /\ \A t \in probabilities :
                    t[2] = mv[2] => ProbLeq(t[1], Cutoff)

(* C24 happens: act() returned after a guess; the least probability is *)
(* under 0.2, and a cell of probability over 0.2 was left aside        *)
C24_Witness ==
    /\ pc = "done"
    /\ moves = {}
    /\ Cardinality(Clicks(history)) = 1
    /\ ~ProbLeq(<<1, 5>>, MinProbability)
    /\ \E t \in probabilities : ~ProbLeq(t[1], Cutoff)

(* A probability that is exactly 0 or exactly 1 *)
ProbIsCertain(p) == ProbIsZero(p) \/ ProbIsOne(p)

(* The confident Group of the systems of the pass that backs the move mv *)
Backing(mv) ==
    {g \in UNION {s.groups : s \in next_systems} :
        /\ mv[2] \in g.cells
        /\ is_confident(g)
        /\ IF mv[1] = "click" THEN ProbIsZero(probability(g))
                              ELSE ProbIsOne(probability(g))}

(* C25: the probability of a Group with cells and bounds in order is 0   *)
(* or 1 exactly when the Group is confident; flatten_groups gives a cell *)
(* 0 or 1 only if a confident Group contains the cell; every confident   *)
(* move of act() is backed by a confident Group containing its cell.     *)
C25_MovesFromConfident ==
    /\ \A g \in BoundedGroups :
          ProbIsCertain(probability(g)) <=> is_confident(g)
    /\ \A s \in KnownSystems :
          \A c \in UNION {g.cells : g \in s.groups} :
              \A p \in CellProbabilities(s.groups, c) :
                  ProbIsCertain(p) =>
                      \E g \in Containers(s.groups, c) : is_confident(g)
    /\ \A mv \in moves : Backing(mv) # {}

(* C25 happens: act() found a confident move for a cell that also lies *)
(* in a Group that is not confident                                    *)
C25_Witness ==
    /\ pc = "finish"
    /\ \E mv \in moves :
          \E g \in UNION {s.groups : s \in next_systems} :
              mv[2] \in g.cells /\ ~is_confident(g)

(* The confident Groups of gs that contain the cell c *)
ConfidentContainers(gs, c) == {g \in Containers(gs, c) : is_confident(g)}

(* C26: flatten_groups yields one probability for each cell of the      *)
(* Groups: that of a confident Group containing the cell if there is    *)
(* one, else the greatest of the probabilities of the Groups containing *)
(* it; the confident Groups containing a cell agree, so that the order  *)
(* of iteration does not show in the result.                            *)
C26_FlattenPrecedence ==
    \A s \in KnownSystems :
        \A c \in UNION {g.cells : g \in s.groups} :
            \E p \in CellProbabilities(s.groups, c) :
                /\ CellProbabilities(s.groups, c) = {p}
                /\ \A g \in ConfidentContainers(s.groups, c) :
                      probability(g) = p
                /\ ConfidentContainers(s.groups, c) = {} =>
                      p = ProbMax({probability(g) :
                                     g \in Containers(s.groups, c)})

(* C26 happens: the systems of a pass have a cell in two confident      *)
(* Groups and in one that is not, and a cell in no confident Group      *)
(* whose Groups differ in probability                                   *)
C26_Witness ==
    /\ pc = "for"
    /\ todo = {}
    /\ \E s \in next_systems : \E c \in s.unrevealed :
          /\ Cardinality(ConfidentContainers(s.groups, c)) >= 2
          /\ Containers(s.groups, c) # ConfidentContainers(s.groups, c)
    /\ \E s \in next_systems : \E c \in s.unrevealed :
          /\ ConfidentContainers(s.groups, c) = {}
          /\ Cardinality({probability(g) : g \in Containers(s.groups, c)}) >= 2

(* The Groups the index holds: those `in` reports and iteration yields *)
Indexed == GraphObjects(graph)

(* C27: after any adds and removes, all_props() is the union of the     *)
(* cell sets of the Groups indexed, and objects_containing(cell) is the *)
(* set of the Groups indexed whose cell set contains the cell.          *)
C27_IndexCellSet ==
    pc = "index" =>
        /\ all_props(graph) = UNION {o.cells : o \in Indexed}
        /\ \A c \in Grid(Width - 1, 1) :
              {deconstruct(o) : o \in objects_containing(graph, c)}
                  = {deconstruct(o) : o \in {g \in Indexed : c \in g.cells}}

(* C28: a query of the index (props_of, relatives_of) about a Group that *)
(* is not indexed leaves the index as it was: the Group is still not in  *)
(* the index, iteration does not yield it, and the answer is empty.      *)
C28_QueriesReadOnly ==
    [][\A o \in IndexGroups :
          ((IndexPropsOf(o) \/ IndexRelativesOf(o)) /\ ~GraphContains(graph, o))
              => /\ graph' = graph
                 /\ ~GraphContains(graph', o)
                 /\ o \notin GraphObjects(graph')
                 /\ answer' = {}]_vars

(* The mine assignment P agrees with the Group g: its count of mines on *)
(* the cells of g is within the bounds of g                             *)
Within(P, g) ==
    /\ g.lower_bound <= Cardinality(P \cap g.cells)
    /\ Cardinality(P \cap g.cells) <= g.upper_bound

(* The mine assignments on the row that agree with both operands *)
Agreeing ==
    {P \in SUBSET Grid(Width, 1) : Within(P, lhs) /\ Within(P, rhs)}

(* C29: for all Groups A and B on the row, in general position, every *)
(* mine assignment that agrees with A and with B agrees with A - B    *)
(* and with A & B.                                                    *)
C29_AlgebraSound ==
    pc \in {"sub", "and"} => \A P \in Agreeing : Within(P, result[1])

(* C29 happens: A - B of two Groups that overlap, neither within the *)
(* other, with an assignment agreeing with both, has a lower bound   *)
(* that rules assignments out                                        *)
C29_Witness ==
    /\ pc = "sub"
    /\ lhs.cells \cap rhs.cells # {}
    /\ lhs.cells \ rhs.cells # {}
    /\ rhs.cells \ lhs.cells # {}
    /\ Agreeing # {}
    /\ result[1].lower_bound > 0
    /\ Cardinality(result[1].cells) >= 2

(* The moves of a set of moves that change the game: reveals and flags *)
GameMoves(h) == Clicks(h) \cup RightClicks(h)

(* C30: every reveal or flag of one act() is of a cell that is unrevealed *)
(* and not flagged in the view, and no cell gets more than one of them.   *)
C30_OneMovePerCell ==
    \A h \in {history, moves} :
        /\ \A mv \in GameMoves(h) :
              mv[2] \in DOMAIN board /\ is_unrevealed(board, mv[2])
        /\ \A mv \in GameMoves(h), other \in GameMoves(h) :
              mv[2] = other[2] => mv = other

(* C30 happens: act() returned after revealing cells and flagging cells, *)
(* on a view with a flag                                                 *)
C30_Witness ==
    /\ pc = "done"
    /\ Clicks(history) # {}
    /\ RightClicks(history) # {}
    /\ Cardinality(GameMoves(history)) >= 3
    /\ \E c \in DOMAIN board : is_flagged(board, c)

=============================================================================
